---- MODULE Spec2Model ----
(***************************************************************************)
(* Model of Calculate_IP_ranges_after_exclusion.cpp: struct IPNetwork      *)
(* (getMask, getBroadcast, overlaps, addressExclude, operator<,            *)
(* operator==, fromCIDR) and the driver loop, sort and dedup of main.      *)
(*                                                                         *)
(* A uint32_t is modelled as the set of its bit positions that are 1       *)
(* (bit 0 is the least significant one), so every value keeps its full     *)
(* 32-bit width: & is intersection, | is union, ~ is the complement in     *)
(* 0..31, and << drops the bits shifted past position 31.                  *)
(***************************************************************************)
EXTENDS Integers, Sequences, FiniteSets

(* ------------------------------ bounds -------------------------------- *)
\* Number of address bit positions in which the inputs differ; they are
\* taken alternately from the top (31, 30, ...) and the bottom (0, 1, ...).
InBits == 2
\* Longest exclude list given to main.
MaxExcludes == 2

(* -------------------------- uint32_t arithmetic ----------------------- *)
AddrBits == 32
Bits == 0..(AddrBits - 1)
AllOnes == Bits

\* v << k: bit b of the result is bit b - k of v; bits past 31 are dropped
ShiftLeft(v, k) == {b \in Bits : b - k \in v}
BitAnd(a, b) == a \cap b
BitOr(a, b) == a \cup b
BitNot(a) == Bits \ a
\* a < b on unsigned values: the highest bit where they differ is set in b
ULess(a, b) == \E h \in b \ a : \A g \in a \ b : g < h

(* ------------------------------ IPNetwork ----------------------------- *)
IPNetwork(net, pre) == [network |-> net, prefix |-> pre]

FromCIDR(cidr) ==
  IF cidr.slash
  THEN LET prefixLen == cidr.prefixLen
           ip == cidr.ip
           mask == IF prefixLen = 0 THEN {} ELSE ShiftLeft(AllOnes, 32 - prefixLen)
           network == BitAnd(ip, mask)
       IN IPNetwork(network, prefixLen)
  ELSE IPNetwork(cidr.ip, 32)

GetMask(self) ==
  IF self.prefix = 0 THEN {} ELSE ShiftLeft(AllOnes, 32 - self.prefix)

GetBroadcast(self) ==
  LET mask == GetMask(self) IN BitOr(self.network, BitNot(mask))

OverlapsOneWay(self, other) ==
  LET mask1 == GetMask(self)
      mask2 == GetMask(other)
  IN \/ BitAnd(self.network, mask1) = BitAnd(other.network, mask2)
     \/ BitAnd(self.network, mask2) = BitAnd(other.network, mask2)

Overlaps(self, other) ==
  LET mask1 == GetMask(self)
      mask2 == GetMask(other)
  IN \/ BitAnd(self.network, mask1) = BitAnd(other.network, mask2)
     \/ BitAnd(self.network, mask2) = BitAnd(other.network, mask2)
     \/ BitAnd(other.network, mask1) = BitAnd(self.network, mask1)

\* One iteration of the loop of addressExclude: the two candidate subnets
\* of prefix length p and the pushes.
SplitStepUnchecked(self, exclude, p, result) ==
  LET subMask == IF p = 0 THEN {} ELSE ShiftLeft(AllOnes, 32 - p)
      subnet1 == BitAnd(self.network, subMask)
      subnet2 == BitOr(subnet1, BitNot(subMask))
      net1 == IPNetwork(subnet1, p)
      net2 == IPNetwork(subnet2, p)
      r1 == Append(result, net1)
  IN IF ~Overlaps(net2, exclude) THEN Append(r1, net2) ELSE r1

SplitStep(self, exclude, p, result) ==
  LET subMask == IF p = 0 THEN {} ELSE ShiftLeft(AllOnes, 32 - p)
      subnet1 == BitAnd(self.network, subMask)
      subnet2 == BitOr(subnet1, BitNot(subMask))
      net1 == IPNetwork(subnet1, p)
      net2 == IPNetwork(subnet2, p)
      r1 == IF ~Overlaps(net1, exclude) THEN Append(result, net1) ELSE result
  IN IF ~Overlaps(net2, exclude) THEN Append(r1, net2) ELSE r1

RECURSIVE ExcludeLoop(_, _, _, _)
ExcludeLoop(self, exclude, p, result) ==
  IF p > 32
  THEN result
  ELSE LET r == SplitStep(self, exclude, p, result)
       IN IF Len(r) >= 2 THEN r ELSE ExcludeLoop(self, exclude, p + 1, r)

AddressExcludeNoFallback(self, exclude) ==
  LET mask == GetMask(self)
  IN IF /\ BitAnd(self.network, mask) # BitAnd(exclude.network, mask)
        /\ BitAnd(exclude.network, mask) # BitAnd(self.network, mask)
     THEN <<self>>
     ELSE ExcludeLoop(self, exclude, self.prefix + 1, <<>>)

AddressExclude(self, exclude) ==
  LET mask == GetMask(self)
  IN IF /\ BitAnd(self.network, mask) # BitAnd(exclude.network, mask)
        /\ BitAnd(exclude.network, mask) # BitAnd(self.network, mask)
     THEN <<self>>
     ELSE LET result == ExcludeLoop(self, exclude, self.prefix + 1, <<>>)
          IN IF result = <<>> THEN <<self>> ELSE result

\* operator< and operator==
Less(self, other) ==
  IF self.network # other.network
  THEN ULess(self.network, other.network)
  ELSE self.prefix < other.prefix

Equal(self, other) ==
  self.network = other.network /\ self.prefix = other.prefix

(* ------------------------ std::sort, std::unique ---------------------- *)
RECURSIVE Insert(_, _)
Insert(s, x) ==
  IF s = <<>> THEN <<x>>
  ELSE IF Less(x, Head(s)) THEN <<x>> \o s
  ELSE <<Head(s)>> \o Insert(Tail(s), x)

RECURSIVE Sort(_)
Sort(s) == IF s = <<>> THEN <<>> ELSE Insert(Sort(Tail(s)), Head(s))

UniqueKeepAll(s) == s

RECURSIVE Unique(_)
Unique(s) ==
  IF Len(s) <= 1 THEN s
  ELSE IF Equal(s[1], s[2]) THEN Unique(Tail(s))
  ELSE <<Head(s)>> \o Unique(Tail(s))

(* ------------------------------- inputs ------------------------------- *)
\* Inputs use the prefixes 0..TopBits and (32-LowBits)..32, and addresses
\* whose 1 bits are among the TopBits highest and the LowBits lowest bits.
TopBits == (InBits + 1) \div 2
LowBits == InBits \div 2
InBitPositions == {b \in Bits : b >= AddrBits - TopBits \/ b < LowBits}
InAddrs == SUBSET InBitPositions
InPrefixes == (0..TopBits) \cup ((32 - LowBits)..32)

\* The texts handed to fromCIDR, already split as find('/'), parseIP and
\* stoi split them.
Cidrs ==
  {[slash |-> TRUE, ip |-> a, prefixLen |-> p] : a \in InAddrs, p \in InPrefixes}
  \cup {[slash |-> FALSE, ip |-> a, prefixLen |-> 32] : a \in InAddrs}

\* What fromCIDR makes of them.
Nets == {FromCIDR(c) : c \in Cidrs}

\* Any value the constructor IPNetwork(net, pre) accepts.
RawNets == {IPNetwork(a, p) : a \in InAddrs, p \in InPrefixes}

NoNet == IPNetwork({}, -1)

(* -------------------------------- state ------------------------------- *)
VARIABLES pc, start, exclude, result, newResult, i, j, y, n, ov, subnets

vars == <<pc, start, exclude, result, newResult, i, j, y, n, ov, subnets>>

MainPcs == {"for_x", "for_y", "unique", "done"}

\* main, lines 132-136, with start as an input; exclude holds the entries
\* of the exclude list the loop has taken so far, as fromCIDR parsed them
MainInit ==
  /\ pc = "for_x"
  /\ start \in Nets
  /\ exclude = <<>>
  /\ result = <<start>>
  /\ newResult = <<>>
  /\ i = 0
  /\ j = 0
  /\ y = NoNet
  /\ n = NoNet
  /\ ov = FALSE
  /\ subnets = <<>>

\* a direct call of overlaps and addressExclude on two IPNetwork values
KernelInit ==
  /\ pc = "kernel_call"
  /\ y \in RawNets
  /\ n \in RawNets
  /\ start = NoNet
  /\ exclude = <<>>
  /\ result = <<>>
  /\ newResult = <<>>
  /\ i = 0
  /\ j = 0
  /\ ov = FALSE
  /\ subnets = <<>>

Init == MainInit \/ KernelInit

\* for (const auto& x : exclude) { n = fromCIDR(x); newResult = {} ...
\* with the next entry x of the list as an input
BeginExclude ==
  /\ pc = "for_x"
  /\ Len(exclude) < MaxExcludes
  /\ \E x \in Cidrs :
       /\ n' = FromCIDR(x)
       /\ exclude' = Append(exclude, FromCIDR(x))
  /\ newResult' = <<>>
  /\ j' = 1
  /\ pc' = "for_y"
  /\ UNCHANGED <<start, result, i, y, ov, subnets>>

\* the body of for (const auto& y : result)
ExcludeOne ==
  /\ pc = "for_y"
  /\ j <= Len(result)
  /\ y' = result[j]
  /\ ov' = Overlaps(result[j], n)
  /\ IF ov'
     THEN /\ subnets' = AddressExclude(result[j], n)
          /\ newResult' = newResult \o subnets'
     ELSE /\ subnets' = <<>>
          /\ newResult' = Append(newResult, result[j])
  /\ j' = j + 1
  /\ UNCHANGED <<pc, start, exclude, result, i, n>>

\* result = newResult; the locals of the inner loop go out of scope
EndExclude ==
  /\ pc = "for_y"
  /\ j > Len(result)
  /\ result' = newResult
  /\ i' = i + 1
  /\ y' = NoNet
  /\ ov' = FALSE
  /\ subnets' = <<>>
  /\ pc' = "for_x"
  /\ UNCHANGED <<start, exclude, newResult, j, n>>

\* std::sort(result.begin(), result.end());
\* taken when the exclude list has no further entry
SortResults ==
  /\ pc = "for_x"
  /\ i = Len(exclude)
  /\ result' = Sort(result)
  /\ pc' = "unique"
  /\ UNCHANGED <<start, exclude, newResult, i, j, y, n, ov, subnets>>

\* result.erase(std::unique(result.begin(), result.end()), result.end());
RemoveDuplicates ==
  /\ pc = "unique"
  /\ result' = Unique(result)
  /\ pc' = "done"
  /\ UNCHANGED <<start, exclude, newResult, i, j, y, n, ov, subnets>>

KernelCall ==
  /\ pc = "kernel_call"
  /\ ov' = Overlaps(y, n)
  /\ subnets' = AddressExclude(y, n)
  /\ pc' = "kernel_ret"
  /\ UNCHANGED <<start, exclude, result, newResult, i, j, y, n>>

Next ==
  \/ BeginExclude
  \/ ExcludeOne
  \/ EndExclude
  \/ SortResults
  \/ RemoveDuplicates
  \/ KernelCall

Spec == Init /\ [][Next]_vars

(* ---------------- the driver as a function of its inputs --------------- *)
\* lines 142-149 applied to every member of the working set, in order
RECURSIVE ExcludeStep(_, _)
ExcludeStep(w, x) ==
  IF w = <<>> THEN <<>>
  ELSE (IF Overlaps(Head(w), x) THEN AddressExclude(Head(w), x) ELSE <<Head(w)>>)
       \o ExcludeStep(Tail(w), x)

\* lines 138-151 over the excludes xs, from working set w
RECURSIVE ExcludeAll(_, _)
ExcludeAll(w, xs) ==
  IF xs = <<>> THEN w ELSE ExcludeAll(ExcludeStep(w, Head(xs)), Tail(xs))

\* lines 135-157
Subtract(s, xs) == Unique(Sort(ExcludeAll(<<s>>, xs)))

(* ------------------------ vocabulary of the claims -------------------- *)
ULeq(a, b) == a = b \/ ULess(a, b)
\* host bits zero and prefix in [0, 32]
Canonical(net) ==
  /\ net.prefix \in 0..32
  /\ BitAnd(net.network, GetMask(net)) = net.network
\* A contains B
Contains(a, b) ==
  /\ a.prefix <= b.prefix
  /\ BitAnd(b.network, GetMask(a)) = a.network
\* address addr lies in base .. base | ~mask(prefix)
InNet(addr, net) ==
  /\ ULeq(net.network, addr)
  /\ ULeq(addr, GetBroadcast(net))
\* the addresses the address-level properties are evaluated on
ProbeAddrs == InAddrs
Permutations(k) ==
  {f \in [1..k -> 1..k] : \A a, b \in 1..k : f[a] = f[b] => a = b}
Permuted(xs, f) == [k \in 1..Len(xs) |-> xs[f[k]]]
InMain == pc \in MainPcs
\* addressExclude has been called on (y, n) and subnets is what it returned
Invoked == pc = "kernel_ret" \/ (InMain /\ y # NoNet /\ ov)
\* overlaps has been called on (y, n) and ov is what it returned
Compared == pc = "kernel_ret" \/ (InMain /\ y # NoNet)
\* the working set between two exclude steps, or the output
BetweenSteps == pc \in {"for_x", "unique", "done"}

(* -------------------------------- claims ------------------------------ *)
\* C1 (Cover): in the final output, every address of start that lies in no
\* exclude is contained in exactly one network of the output.
C1_Cover ==
  pc = "done" =>
    \A a \in ProbeAddrs :
      (InNet(a, start) /\ \A k \in 1..Len(exclude) : ~InNet(a, exclude[k]))
        => Cardinality({k \in 1..Len(result) : InNet(a, result[k])}) = 1

\* C2 (Exclusion): no address of start that lies in some exclude is
\* contained in a network of the output.
C2_Exclusion ==
  pc = "done" =>
    \A a \in ProbeAddrs :
      (InNet(a, start) /\ \E k \in 1..Len(exclude) : InNet(a, exclude[k]))
        => \A k \in 1..Len(result) : ~InNet(a, result[k])

\* C3 (Disjointness): after every exclude step and in the output, no member
\* of the working set contains another member.
C3_Disjoint ==
  (InMain /\ BetweenSteps) =>
    \A k, l \in 1..Len(result) :
      k # l => ~Contains(result[k], result[l])

\* C4 (Kernel size): addressExclude on canonical C and E with C containing E
\* returns exactly prefix(E) - prefix(C) networks.
C4_KernelSize ==
  (Invoked /\ Canonical(y) /\ Canonical(n) /\ Contains(y, n))
    => Len(subnets) = n.prefix - y.prefix

\* C5 (Network invariant): every network of the working set and of the
\* output has its host bits zero and its prefix in [0, 32].
C5_Aligned ==
  InMain =>
    /\ \A k \in 1..Len(result) : Canonical(result[k])
    /\ \A k \in 1..Len(newResult) : Canonical(newResult[k])

\* C6 (Canonicity): the final output is strictly ascending under operator<,
\* and no two of its entries are equal under operator==.
C6_Canonical ==
  pc = "done" =>
    /\ \A k \in 1..(Len(result) - 1) : Less(result[k], result[k + 1])
    /\ \A k, l \in 1..Len(result) : k # l => ~Equal(result[k], result[l])

\* C6 witness: an output of two or more networks from which the dedup
\* removed an entry.
C6_Witness ==
  /\ pc = "done"
  /\ Len(result) >= 2
  /\ Len(newResult) > Len(result)

\* C7 (Order-independence): the output for any permutation of the excludes
\* is the output for the excludes as given.
C7_OrderIndependent ==
  pc = "done" =>
    \A f \in Permutations(Len(exclude)) :
      Subtract(start, Permuted(exclude, f)) = result

\* C8 (Idempotence): applying the exclude step of X to the working set that
\* the exclude step of X has just produced leaves it as it is, so the output
\* with X repeated is the output with X once.
C8_Idempotent ==
  (pc = "for_x" /\ i >= 1) =>
    LET again == ExcludeStep(result, exclude[i])
    IN /\ again = result
       /\ Unique(Sort(again)) = Unique(Sort(result))

\* C8 witness: an exclude step that has split a member of the working set.
C8_Witness ==
  /\ pc = "for_x"
  /\ i >= 1
  /\ Len(result) >= 2
  /\ \E k \in 1..Len(result) : Overlaps(start, result[k]) /\ result[k] # start

\* C9 (Overlap predicate): on networks with host bits zero, overlaps is true
\* exactly when one of the two contains the other.
C9_Overlaps ==
  (Compared /\ Canonical(y) /\ Canonical(n))
    => (ov <=> (Contains(y, n) \/ Contains(n, y)))

\* C9 witness: overlaps has answered true on a network and a strictly
\* smaller network inside it with another base.
C9_Witness ==
  /\ pc = "kernel_ret"
  /\ Canonical(y) /\ Canonical(n)
  /\ y.prefix < n.prefix
  /\ y.network # n.network
  /\ Contains(y, n)
  /\ ov

\* C10: addressExclude returns the network itself alone, or two networks of
\* one prefix length p with prefix(C) < p <= 32, never an empty list; the
\* working set and the output are never empty.
C10_NeverEmpty ==
  /\ Invoked =>
       \/ subnets = <<y>>
       \/ /\ Len(subnets) = 2
          /\ subnets[1].prefix = subnets[2].prefix
          /\ y.prefix < subnets[1].prefix
          /\ subnets[1].prefix <= 32
  /\ (InMain /\ BetweenSteps) => Len(result) >= 1

\* C10 witness: the driver has called addressExclude with an exclude that
\* covers the whole member, and the member came back alone.
C10_Witness ==
  /\ pc = "for_y"
  /\ i >= 1
  /\ Len(result) >= 2
  /\ ov
  /\ Contains(n, y)
  /\ subnets = <<y>>

====
